---- MODULE Spec2Model ----
(***************************************************************************)
(* The WebSocketManager of app/services/websocket_manager.py as a state    *)
(* machine.  The manager's coroutines run on one asyncio event loop: code  *)
(* between two awaits of real I/O (websocket.accept, send_text, close) is  *)
(* atomic, and at each such await other coroutines may run.  An action of  *)
(* this model is one such atomic segment: it completes the awaited I/O     *)
(* with an outcome chosen by the environment and runs the code up to the   *)
(* next await (or to the return of the top-level call).                    *)
(***************************************************************************)
EXTENDS Integers, Sequences, FiniteSets, TLC

\* ------------------------------------------------------------- bounds
MaxUser == 1
MaxConn == 3
MaxMsg == 3
MaxOps == 3
MaxOpsSeq == 4
MaxEnqueue == 105
MaxOpsIn == 4
MaxOpsSimple == 6
MaxMoodEvents == 5
MaxLearningDay == 30
LearningDayStep == 15
MaxTick == 1
TickStep == 3601
NumTasks == 2

Users == 0 .. MaxUser
Conns == 1 .. MaxConn
Tasks == 1 .. NumTasks

\* ------------------------------------------------- program constants
max_queue_size == 100
IdleTimeout == 3600
\* timedelta(days=30): how long a mood pattern is kept
RetentionDays == 30
\* len(moods) >= 3
MinMoodEvents == 3
\* >= 0.6, as the fraction ConsistencyNum / ConsistencyDen
ConsistencyNum == 6
ConsistencyDen == 10
\* Python's None where a user id is expected (exclude_user = None)
NoUser == -1
\* Python's None where a websocket is expected (websocket = None)
NoConn == 0
\* a deleted slot of the dict's entry array
Tomb == -2

VARIABLES
    active_connections,  \* dict user_id -> set of websockets (keys present)
    ac_order,            \* the dict's entry array: keys in insertion order
    connection_metadata, \* dict websocket -> [user_id, connected_at]
    user_sessions,       \* dict user_id -> [active_connections,
                         \*   last_activity, status]
    offline_messages,    \* user_id -> list of queued messages
    connection_stats,    \* [total_connections, active_connections]
    ws_state,            \* each websocket: NEW, CONNECTING, OPEN, CLOSED
    ws_user,             \* the user id in the path a websocket arrived on
    sent_log,            \* per websocket, the send_text calls and results
    endpoint_ended,      \* websockets whose websocket_endpoint has returned
    status_given,        \* users whose session a user_status message has written
    enqueued,            \* per user, messages queued since the last clear
    replayed,            \* ids handed to send_to_user by a replay
    tasks,               \* per coroutine: its call frames
    last,                \* the last completed top-level call
    now,                 \* datetime.now(), in seconds
    next_msg,            \* messages created so far
    n_ops                \* top-level calls so far

\* the state of the WebSocketManager of app/services/websocket_manager.py
manager_vars ==
    << active_connections, ac_order, connection_metadata, user_sessions,
       offline_messages, connection_stats, ws_state, ws_user, sent_log,
       endpoint_ended, status_given, enqueued, replayed, tasks, last, now,
       next_msg, n_ops >>

\* the WebSocketManager of main_simple.py and its websockets
VARIABLES
    simple_active_connections,  \* self.active_connections: list of websockets
    simple_user_connections,    \* self.user_connections: dict user_id -> websocket
    simple_ws,                  \* each websocket: NEW, OPEN, GONE, CLOSED
    simple_owner,               \* the user id in the path a websocket arrived on
    simple_received,            \* per websocket, the texts delivered to it
    simple_last,                \* the last call and what it reached
    simple_ops                  \* calls so far

simple_vars ==
    << simple_active_connections, simple_user_connections, simple_ws,
       simple_owner, simple_received, simple_last, simple_ops >>

\* the mood patterns of one user in the LearningSystem of learning_system.py
VARIABLES
    mood_patterns,       \* self.user_patterns[user_id]['mood']
    mood_insights,       \* what _generate_mood_insights returned, if it was the last call
    learning_day,        \* datetime.now(), in days
    learning_op          \* the last call: none, learn, insights, days

learning_vars == << mood_patterns, mood_insights, learning_day, learning_op >>

vars == << manager_vars, simple_vars, learning_vars >>

\* ------------------------------------------------------------ payloads
\* A message dict: its kind and id, and how many times it was wrapped as
\* {'type': 'offline_message', 'data': message}.
Msg(kind, id) == [kind |-> kind, id |-> id, wraps |-> 0]

OfflineWrap(message) == [message EXCEPT !.wraps = @ + 1]

IsOfflineMessage(p) == p.wraps > 0

OfflineData(p) == [p EXCEPT !.wraps = @ - 1]

\* `if exclude_user` / `if user_id`: None and 0 are both falsy
Truthy(x) == x # NoUser /\ x # 0

\* ------------------------------------------------------- call frames
AwaitLabels == {"idle", "done", "accept", "confirm", "send", "close_one",
                "close_all", "bsend", "pong", "esend"}

IdleFrame ==
    [ op |-> "idle", pc |-> "idle", ret |-> FALSE,
      ws |-> NoConn, user |-> NoUser,
      r_msgs |-> << >>, r_i |-> 0,
      s_user |-> NoUser, s_msg |-> Msg("none", 0), s_todo |-> {},
      s_cur |-> NoConn, s_ok |-> FALSE, s_from |-> "top",
      d_user |-> NoUser, d_ws |-> NoConn, d_todo |-> {}, d_cur |-> NoConn,
      d_from |-> "top",
      b_msg |-> Msg("none", 0), b_excl |-> NoUser, b_used |-> 0, b_pos |-> 0,
      b_user |-> NoUser, b_todo |-> {}, b_cur |-> NoConn,
      k_todo |-> {},
      g_snap |-> {}, g_ok |-> {}, g_fail |-> {}, g_abort |-> FALSE,
      g_stage |-> "", g_queue |-> << >> ]

\* What the last completed top-level call was, did and returned
NoLast ==
    [ op |-> "none", user |-> NoUser, ws |-> NoConn, msg |-> Msg("none", 0),
      ret |-> FALSE, stage |-> "", snap |-> {}, ok |-> {}, fail |-> {},
      abort |-> FALSE, msgs |-> << >>, queue |-> << >> ]

\* The state a segment works on: the manager's fields, the sockets, and the
\* frame f of the coroutine that runs.
World(t) ==
    [ ac |-> active_connections, ord |-> ac_order,
      meta |-> connection_metadata, sess |-> user_sessions,
      off |-> offline_messages, stats |-> connection_stats,
      ws |-> ws_state, log |-> sent_log, enq |-> enqueued,
      rep |-> replayed, ended |-> endpoint_ended, given |-> status_given,
      now |-> now,
      last |-> last, f |-> tasks[t] ]

\* ------------------------------------------- the dict active_connections
Compact(ord) == SelectSeq(ord, LAMBDA e : e # Tomb)

LiveCount(ord) == Len(Compact(ord))

\* active_connections.get(user_id, set())
AcGet(ac, u) == IF u \in DOMAIN ac THEN ac[u] ELSE {}

\* A new key takes the next slot of the entry array; an insertion that finds
\* the array full rebuilds it without the deleted slots (rz).
AcInsert(w, u, rz) ==
    [w EXCEPT !.ac = w.ac @@ (u :> {}),
              !.ord = Append(IF rz THEN Compact(w.ord) ELSE w.ord, u)]

\* defaultdict(set).__getitem__: a missing key is inserted with an empty set
AcTouch(w, u, rz) == IF u \in DOMAIN w.ac THEN w ELSE AcInsert(w, u, rz)

\* del active_connections[user_id]
AcDelete(w, u) ==
    [w EXCEPT !.ac = [x \in (DOMAIN w.ac) \ {u} |-> w.ac[x]],
              !.ord = [i \in DOMAIN w.ord |->
                          IF w.ord[i] = u THEN Tomb ELSE w.ord[i]]]

DictDel(d, k) == [x \in (DOMAIN d) \ {k} |-> d[x]]

RECURSIVE SumCard(_, _)
SumCard(ac, keys) ==
    IF keys = {} THEN 0
    ELSE LET k == CHOOSE x \in keys : TRUE
         IN  Cardinality(ac[k]) + SumCard(ac, keys \ {k})

\* sum(len(connections) for connections in self.active_connections.values())
TotalActive(ac) == SumCard(ac, DOMAIN ac)

\* the next element a `for` over a copied set yields: any remaining one
Pick(todo, ch) == IF ch \in todo THEN ch ELSE CHOOSE x \in todo : TRUE

\* --------------------------------------------------------- disconnect
\* (faulty variant) a disconnect of one websocket empties the user's set
DisconnectBeginDropsAll(w, rz) ==
    LET u == w.f.d_user
        c == w.f.d_ws
        w1 == AcTouch(w, u, rz)
    IN  IF c # NoConn
        THEN [w1 EXCEPT !.ac[u] = {},
                        !.meta = DictDel(@, c),
                        !.f.pc = "close_one"]
        ELSE [w1 EXCEPT !.f.d_todo = w1.ac[u],
                        !.f.pc = "d_all_loop"]

\* disconnect(user_id, websocket) up to its first await: lines 105-116 with
\* a websocket, lines 120-122 without one.
DisconnectBegin(w, rz) ==
    LET u == w.f.d_user
        c == w.f.d_ws
        w1 == AcTouch(w, u, rz)
    IN  IF c # NoConn
        THEN [w1 EXCEPT !.ac[u] = @ \ {c},
                        !.meta = DictDel(@, c),
                        !.f.pc = "close_one"]
        ELSE [w1 EXCEPT !.f.d_todo = w1.ac[u],
                        !.f.pc = "d_all_loop"]

\* `for conn in connections_to_close`, then active_connections[user_id].clear()
DisconnectAllLoop(w, ch, rz) ==
    IF w.f.d_todo # {}
    THEN LET c == Pick(w.f.d_todo, ch)
         IN  [w EXCEPT !.f.d_cur = c, !.f.d_todo = @ \ {c},
                       !.f.pc = "close_all"]
    ELSE LET w1 == AcTouch(w, w.f.d_user, rz)
         IN  [w1 EXCEPT !.ac[w.f.d_user] = {}, !.f.pc = "d_tail"]

\* `await websocket.close()` has returned or raised (both are ignored)
CloseOneDone(w) ==
    [w EXCEPT !.ws[w.f.d_ws] = "CLOSED", !.f.pc = "d_tail"]

\* (faulty variant) the metadata entry of a closed connection is kept
CloseAllDoneKeepsMetadata(w) ==
    [w EXCEPT !.ws[w.f.d_cur] = "CLOSED",
              !.f.d_cur = NoConn,
              !.f.pc = "d_all_loop"]

\* `await conn.close()` has returned or raised; the metadata entry goes
CloseAllDone(w) ==
    [w EXCEPT !.ws[w.f.d_cur] = "CLOSED",
              !.meta = DictDel(@, w.f.d_cur),
              !.f.d_cur = NoConn,
              !.f.pc = "d_all_loop"]

\* (faulty variant) the session is only updated, never removed
SessionKeptAfterDisconnect(sess, ac, u) ==
    IF u \notin DOMAIN sess THEN sess
    ELSE [sess EXCEPT ![u].active_connections = Cardinality(AcGet(ac, u))]

\* (faulty variant) the session keeps the count it had
SessionAfterDisconnectKeepsCount(sess, ac, u) ==
    IF u \notin DOMAIN sess THEN sess
    ELSE IF AcGet(ac, u) = {} THEN DictDel(sess, u)
    ELSE sess

\* The session update of disconnect
SessionAfterDisconnect(sess, ac, u) ==
    IF u \notin DOMAIN sess THEN sess
    ELSE IF AcGet(ac, u) = {} THEN DictDel(sess, u)
    ELSE [sess EXCEPT ![u].active_connections = Cardinality(AcGet(ac, u))]

\* (faulty variant) the empty set stays in active_connections
DisconnectTailKeepsEmptySet(w, rz) ==
    LET u == w.f.d_user
        w1 == AcTouch(w, u, rz)
    IN  [w1 EXCEPT !.sess = SessionAfterDisconnect(@, w1.ac, u),
                   !.stats.active_connections = TotalActive(w1.ac),
                   !.f.pc = "d_ret"]

\* disconnect after the close: the empty set is deleted, the session and
\* the statistics are updated
DisconnectTail(w, rz) ==
    LET u == w.f.d_user
        w1 == AcTouch(w, u, rz)
        w2 == IF w1.ac[u] = {} THEN AcDelete(w1, u) ELSE w1
    IN  [w2 EXCEPT !.sess = SessionAfterDisconnect(@, w2.ac, u),
                   !.stats.active_connections = TotalActive(w2.ac),
                   !.f.pc = "d_ret"]

\* disconnect returns to the code that awaited it
DisconnectReturn(w) ==
    LET back == CASE w.f.d_from = "send" -> "s_loop"
                  [] w.f.d_from = "bcast" -> "b_inner"
                  [] w.f.d_from = "cleanup" -> "k_loop"
                  [] w.f.d_from = "endpoint" -> "e_end"
                  [] OTHER -> "finish"
    IN  [w EXCEPT !.f.d_user = NoUser, !.f.d_ws = NoConn, !.f.d_todo = {},
                  !.f.d_cur = NoConn, !.f.d_from = "top", !.f.pc = back]

\* ------------------------------------------------------- offline queue
\* (faulty variant) a full list keeps its oldest entries
QueueKeepsOldest(queue, message) ==
    LET q == Append(queue, message)
    IN  IF Len(q) > max_queue_size THEN SubSeq(q, 1, max_queue_size) ELSE q

\* (faulty variant) the message is put at the head of the list
QueueAtHead(queue, message) ==
    LET q == << message >> \o queue
    IN  IF Len(q) > max_queue_size
        THEN SubSeq(q, Len(q) - max_queue_size + 1, Len(q))
        ELSE q

\* The list after _queue_offline_message
QueueOfflineMessage(queue, message) ==
    LET q == Append(queue, message)
    IN  IF Len(q) > max_queue_size
        THEN SubSeq(q, Len(q) - max_queue_size + 1, Len(q))
        ELSE q

\* ------------------------------------------------------- send_to_user
\* (faulty variant) a replayed message goes to the new connection only
SendBeginReplayToNew(w) ==
    LET u == w.f.s_user
    IN  IF u \in DOMAIN w.ac
        THEN [w EXCEPT !.f.s_todo = IF w.f.s_from = "replay"
                                    THEN w.ac[u] \cap {w.f.ws} ELSE w.ac[u],
                       !.f.s_ok = FALSE,
                       !.f.g_snap = IF w.f.s_from = "top" THEN w.ac[u] ELSE @,
                       !.f.pc = "s_loop"]
        ELSE [w EXCEPT !.f.s_ok = FALSE, !.f.pc = "s_queue"]

\* send_to_user up to the copy of the user's connection set
SendBegin(w) ==
    LET u == w.f.s_user
    IN  IF u \in DOMAIN w.ac
        THEN [w EXCEPT !.f.s_todo = w.ac[u], !.f.s_ok = FALSE,
                       !.f.g_snap = IF w.f.s_from = "top" THEN w.ac[u] ELSE @,
                       !.f.pc = "s_loop"]
        ELSE [w EXCEPT !.f.s_ok = FALSE, !.f.pc = "s_queue"]

\* `for websocket in connections`, and what follows the loop
SendLoop(w, ch) ==
    IF w.f.s_todo # {}
    THEN LET c == Pick(w.f.s_todo, ch)
         IN  [w EXCEPT !.f.s_cur = c, !.f.s_todo = @ \ {c}, !.f.pc = "send"]
    ELSE [w EXCEPT !.f.s_cur = NoConn,
                   !.f.pc = IF w.f.s_ok THEN "s_ret" ELSE "s_queue"]

\* (faulty variant) only a message for a user that had no connection is queued
SendQueueOnlyOffline(w) ==
    LET u == w.f.s_user
    IN  IF w.f.g_snap = {}
        THEN [w EXCEPT !.off[u] = QueueOfflineMessage(@, w.f.s_msg),
                       !.enq[u] = Append(@, w.f.s_msg),
                       !.f.pc = "s_ret"]
        ELSE [w EXCEPT !.f.pc = "s_ret"]

\* the user is offline (or no send succeeded): the message is queued
SendQueue(w) ==
    LET u == w.f.s_user
    IN  [w EXCEPT !.off[u] = QueueOfflineMessage(@, w.f.s_msg),
                  !.enq[u] = Append(@, w.f.s_msg),
                  !.f.pc = "s_ret"]

\* send_to_user returns s_ok, to its caller or into the replay loop
SendReturn(w) ==
    IF w.f.s_from # "replay"
    THEN [w EXCEPT !.f.ret = w.f.s_ok, !.f.pc = "finish"]
    ELSE [w EXCEPT !.f.r_i = @ + 1, !.f.s_user = NoUser,
                   !.f.s_msg = Msg("none", 0), !.f.s_ok = FALSE,
                   !.f.pc = "r_loop"]

\* one send_text call on websocket c with its result
Logged(w, c, message, ok) ==
    [w EXCEPT !.log[c] = Append(@, [p |-> message, ok |-> ok])]

\* (faulty variant) a failed send is only logged: the connection stays registered
SendDoneKeepsFailed(w, ok) ==
    LET c == w.f.s_cur
        w1 == Logged(w, c, w.f.s_msg, ok)
        top == w.f.s_from = "top"
    IN  IF ok
        THEN [w1 EXCEPT !.f.s_ok = TRUE,
                        !.f.g_ok = IF top THEN @ \cup {c} ELSE @,
                        !.f.pc = "s_loop"]
        ELSE [w1 EXCEPT !.f.g_fail = @ \cup {c}, !.f.pc = "s_loop"]

\* `await self._send_to_connection(websocket, message)` in send_to_user has
\* returned (ok) or raised: a raise unregisters the connection
SendDone(w, ok) ==
    LET c == w.f.s_cur
        w1 == Logged(w, c, w.f.s_msg, ok)
        top == w.f.s_from = "top"
    IN  IF ok
        THEN [w1 EXCEPT !.f.s_ok = TRUE,
                        !.f.g_ok = IF top THEN @ \cup {c} ELSE @,
                        !.f.pc = "s_loop"]
        ELSE [w1 EXCEPT !.f.g_fail = @ \cup {c},
                        !.f.d_user = w.f.s_user, !.f.d_ws = c,
                        !.f.d_from = "send", !.f.pc = "d_begin"]

\* ---------------------------------------------- _send_offline_messages
ReplayBegin(w) ==
    [w EXCEPT !.f.r_msgs = w.off[w.f.user], !.f.r_i = 1, !.f.pc = "r_loop"]

\* (faulty variant) the replay walks its copy from the newest message to the oldest
ReplayLoopNewestFirst(w) ==
    IF w.f.r_i <= Len(w.f.r_msgs)
    THEN LET m == w.f.r_msgs[Len(w.f.r_msgs) - w.f.r_i + 1]
         IN  [w EXCEPT !.f.s_user = w.f.user, !.f.s_msg = OfflineWrap(m),
                       !.f.s_from = "replay",
                       !.rep = @ \cup {m.id},
                       !.f.pc = "s_begin"]
    ELSE [w EXCEPT !.off[w.f.user] = << >>, !.enq[w.f.user] = << >>,
                   !.f.pc = "finish"]

\* `for message in messages: await self.send_to_user(...)`, then the clear
ReplayLoop(w) ==
    IF w.f.r_i <= Len(w.f.r_msgs)
    THEN LET m == w.f.r_msgs[w.f.r_i]
         IN  [w EXCEPT !.f.s_user = w.f.user, !.f.s_msg = OfflineWrap(m),
                       !.f.s_from = "replay",
                       !.rep = @ \cup {m.id},
                       !.f.pc = "s_begin"]
    ELSE [w EXCEPT !.off[w.f.user] = << >>, !.enq[w.f.user] = << >>,
                   !.f.pc = "finish"]

\* ------------------------------------------------------------- connect
\* (faulty variant) total_connections is set to the number of connections
\* registered now
RegisterCountsActive(w, rz) ==
    LET u == w.f.user
        c == w.f.ws
        w1 == AcTouch(w, u, rz)
        w2 == [w1 EXCEPT !.ac[u] = @ \cup {c}]
    IN  [w2 EXCEPT
           !.meta = (c :> [user_id |-> u, connected_at |-> w.now]) @@ @,
           !.sess = (u :> [active_connections |-> Cardinality(w2.ac[u]),
                           last_activity |-> w.now,
                           status |-> "none"]) @@ @,
           !.stats = [total_connections |-> TotalActive(w2.ac),
                      active_connections |-> TotalActive(w2.ac)]]

\* (faulty variant) a session that exists keeps its status
RegisterKeepsStatus(w, rz) ==
    LET u == w.f.user
        c == w.f.ws
        w1 == AcTouch(w, u, rz)
        w2 == [w1 EXCEPT !.ac[u] = @ \cup {c}]
    IN  [w2 EXCEPT
           !.meta = (c :> [user_id |-> u, connected_at |-> w.now]) @@ @,
           !.sess = (u :> [active_connections |-> Cardinality(w2.ac[u]),
                           last_activity |-> w.now,
                           status |-> IF u \in DOMAIN w.sess
                                      THEN w.sess[u].status
                                      ELSE "none"]) @@ @,
           !.stats = [total_connections |-> @.total_connections + 1,
                      active_connections |-> TotalActive(w2.ac)]]

\* lines 52-75: the websocket is registered
Register(w, rz) ==
    LET u == w.f.user
        c == w.f.ws
        w1 == AcTouch(w, u, rz)
        w2 == [w1 EXCEPT !.ac[u] = @ \cup {c}]
    IN  [w2 EXCEPT
           !.meta = (c :> [user_id |-> u, connected_at |-> w.now]) @@ @,
           !.sess = (u :> [active_connections |-> Cardinality(w2.ac[u]),
                           last_activity |-> w.now,
                           status |-> "none"]) @@ @,
           !.stats = [total_connections |-> @.total_connections + 1,
                      active_connections |-> TotalActive(w2.ac)]]

\* (faulty variant) the websocket is registered before the handshake result
\* is looked at
AcceptDoneRegistersFirst(w, ok, rz) ==
    IF ok
    THEN LET w1 == Register([w EXCEPT !.ws[w.f.ws] = "OPEN"], rz)
         IN  [w1 EXCEPT !.f.pc = "confirm"]
    ELSE LET w1 == Register(w, rz)
         IN  [w1 EXCEPT !.f.g_stage = "rejected",
                        !.f.d_user = w.f.user, !.f.d_ws = w.f.ws,
                        !.f.d_from = "connect", !.f.pc = "d_begin"]

\* `await websocket.accept()` has returned (ok) or raised
AcceptDone(w, ok, rz) ==
    IF ok
    THEN LET w1 == Register([w EXCEPT !.ws[w.f.ws] = "OPEN"], rz)
         IN  [w1 EXCEPT !.f.pc = "confirm"]
    ELSE [w EXCEPT !.f.g_stage = "rejected",
                   !.f.d_user = w.f.user, !.f.d_ws = w.f.ws,
                   !.f.d_from = "connect", !.f.pc = "d_begin"]

\* the connection_confirmed send has returned (ok) or raised
ConfirmDone(w, ok) ==
    LET w1 == Logged(w, w.f.ws, Msg("confirm", w.f.ws), ok)
    IN  IF ok
        THEN [w1 EXCEPT !.f.g_stage = "replayed", !.f.pc = "r_begin"]
        ELSE [w1 EXCEPT !.f.g_stage = "unconfirmed",
                        !.f.g_fail = @ \cup {w.f.ws},
                        !.f.d_user = w.f.user, !.f.d_ws = w.f.ws,
                        !.f.d_from = "connect", !.f.pc = "d_begin"]

\* ---------------------------------------------------- broadcast_to_all
\* the connections a broadcast excluding x is due to reach
Due(ac, x) == UNION {ac[u] : u \in (DOMAIN ac) \ {x}}

\* `for user_id, connections in self.active_connections.items()` starts:
\* the iterator remembers the dict's size and its place in the entry array
BroadcastBegin(w) ==
    [w EXCEPT !.f.b_used = LiveCount(w.ord), !.f.b_pos = 0,
              !.f.g_snap = Due(w.ac, w.f.b_excl),
              !.f.pc = "b_next"]

\* the live slots after position pos
SlotsAfter(ord, pos) == {i \in DOMAIN ord : i > pos /\ ord[i] # Tomb}

\* The iterator's next(): RuntimeError (caught by the outer except, which
\* ends the broadcast) if the dict changed size, else the next live slot;
\* then the exclude test and the copy of that user's set.
BroadcastNext(w) ==
    IF LiveCount(w.ord) # w.f.b_used
    THEN [w EXCEPT !.f.g_abort = TRUE, !.f.pc = "finish"]
    ELSE IF SlotsAfter(w.ord, w.f.b_pos) = {}
    THEN [w EXCEPT !.f.pc = "finish"]
    ELSE LET i == CHOOSE j \in SlotsAfter(w.ord, w.f.b_pos) :
                      \A k \in SlotsAfter(w.ord, w.f.b_pos) : j <= k
             u == w.ord[i]
         IN  IF Truthy(w.f.b_excl) /\ u = w.f.b_excl
             THEN [w EXCEPT !.f.b_pos = i, !.f.b_user = u]
             ELSE [w EXCEPT !.f.b_pos = i, !.f.b_user = u,
                            !.f.b_todo = w.ac[u], !.f.pc = "b_inner"]

\* `for websocket in connections_copy`
BroadcastInner(w, ch) ==
    IF w.f.b_todo # {}
    THEN LET c == Pick(w.f.b_todo, ch)
         IN  [w EXCEPT !.f.b_cur = c, !.f.b_todo = @ \ {c}, !.f.pc = "bsend"]
    ELSE [w EXCEPT !.f.b_cur = NoConn, !.f.pc = "b_next"]

\* (faulty variant) a broadcast that fails on a connection is queued for its user
BroadcastSendDoneQueues(w, ok) ==
    LET c == w.f.b_cur
        w1 == Logged(w, c, w.f.b_msg, ok)
    IN  IF ok
        THEN [w1 EXCEPT !.f.g_ok = @ \cup {c}, !.f.pc = "b_inner"]
        ELSE [w1 EXCEPT !.f.g_fail = @ \cup {c},
                        !.off[w.f.b_user] = QueueOfflineMessage(@, w.f.b_msg),
                        !.f.d_user = w.f.b_user, !.f.d_ws = c,
                        !.f.d_from = "bcast", !.f.pc = "d_begin"]

\* the send of a broadcast has returned (ok) or raised
BroadcastSendDone(w, ok) ==
    LET c == w.f.b_cur
        w1 == Logged(w, c, w.f.b_msg, ok)
    IN  IF ok
        THEN [w1 EXCEPT !.f.g_ok = @ \cup {c}, !.f.pc = "b_inner"]
        ELSE [w1 EXCEPT !.f.g_fail = @ \cup {c},
                        !.f.d_user = w.f.b_user, !.f.d_ws = c,
                        !.f.d_from = "bcast", !.f.pc = "d_begin"]

\* ----------------------------------------- cleanup_inactive_connections
\* (faulty variant) the scan takes every connection, whatever its age
InactiveAny(meta, t) ==
    {<<c, meta[c].user_id>> : c \in DOMAIN meta}

\* the scan of connection_metadata for connections older than the timeout
Inactive(meta, t) ==
    {<<c, meta[c].user_id>> : c \in
        {x \in DOMAIN meta : t - meta[x].connected_at > IdleTimeout}}

CleanupBegin(w) ==
    [w EXCEPT !.f.k_todo = Inactive(w.meta, w.now),
              !.f.g_snap = {e[1] : e \in Inactive(w.meta, w.now)},
              !.f.pc = "k_loop"]

\* `for websocket, user_id in inactive_connections`
CleanupLoop(w, ch) ==
    IF w.f.k_todo # {}
    THEN LET c == Pick({e[1] : e \in w.f.k_todo}, ch)
             e == CHOOSE x \in w.f.k_todo : x[1] = c
         IN  [w EXCEPT !.f.k_todo = @ \ {e},
                       !.f.d_user = e[2], !.f.d_ws = c,
                       !.f.d_from = "cleanup", !.f.pc = "d_begin"]
    ELSE [w EXCEPT !.f.pc = "finish"]

\* ------------------------------------------------------ handle_message
\* The inbound texts handle_message is given: one that is not JSON, an
\* object without a type, and one of each type it knows.
MessageKinds == {"invalid_json", "no_type", "ping", "typing", "voice_data",
                 "user_status"}

\* the status a user_status message carries
StatusGiven == "away"

\* handle_message(websocket, message) up to its first await or its return
MessageBegin(w) ==
    LET c == w.f.ws
        k == w.f.g_stage
    IN  IF k = "invalid_json" \/ c \notin DOMAIN w.meta
        THEN [w EXCEPT !.f.pc = "finish"]
        ELSE LET u == w.meta[c].user_id
                 w1 == IF u \in DOMAIN w.sess
                       THEN [w EXCEPT !.sess[u].last_activity = w.now,
                                      !.f.user = u]
                       ELSE [w EXCEPT !.f.user = u]
             IN  CASE k = "ping" -> [w1 EXCEPT !.f.pc = "pong"]
                   [] k = "voice_data" ->
                        [w1 EXCEPT !.f.s_user = u, !.f.s_from = "voice",
                                   !.f.pc = "s_begin"]
                   [] k = "user_status" /\ u \in DOMAIN w.sess ->
                        [w1 EXCEPT !.sess[u].status = StatusGiven,
                                   !.given = @ \cup {u},
                                   !.f.pc = "finish"]
                   [] OTHER -> [w1 EXCEPT !.f.pc = "finish"]

\* the pong of _handle_ping has been sent or has raised (which is logged)
PongDone(w, ok) ==
    [Logged(w, w.f.ws, w.f.s_msg, ok) EXCEPT !.f.pc = "finish"]

\* --------------------------------------------- main.py websocket_endpoint
\* What the read loop of the endpoint gets from receive_text: the client
\* has gone (WebSocketDisconnect), a text that is not JSON, an object
\* without a type, a ping, a voice_start.
EndpointKinds == {"close", "invalid_json", "no_type", "ping", "voice_start"}

\* (faulty variant) the end of the read loop disconnects its own websocket only
ReceiveBeginClosesOwn(w) ==
    LET c == w.f.ws
        k == w.f.g_stage
    IN  CASE k = "close" ->
               [w EXCEPT !.ws[c] = "CLOSED",
                         !.f.d_user = w.f.user, !.f.d_ws = c,
                         !.f.d_from = "endpoint", !.f.pc = "d_begin"]
          [] k = "invalid_json" ->
               [w EXCEPT !.f.d_user = w.f.user, !.f.d_ws = c,
                         !.f.d_from = "endpoint", !.f.pc = "d_begin"]
          [] k \in {"ping", "voice_start"} -> [w EXCEPT !.f.pc = "esend"]
          [] OTHER -> [w EXCEPT !.f.pc = "finish"]

\* One round of the read loop up to its first await: anything raised in it
\* ends the loop with disconnect(user_id)
ReceiveBegin(w) ==
    LET c == w.f.ws
        k == w.f.g_stage
    IN  CASE k = "close" ->
               [w EXCEPT !.ws[c] = "CLOSED",
                         !.f.d_user = w.f.user, !.f.d_ws = NoConn,
                         !.f.d_from = "endpoint", !.f.pc = "d_begin"]
          [] k = "invalid_json" ->
               [w EXCEPT !.f.d_user = w.f.user, !.f.d_ws = NoConn,
                         !.f.d_from = "endpoint", !.f.pc = "d_begin"]
          [] k \in {"ping", "voice_start"} -> [w EXCEPT !.f.pc = "esend"]
          [] OTHER -> [w EXCEPT !.f.pc = "finish"]

\* the send_text of the read loop has returned (ok) or raised
EndpointSendDone(w, ok) ==
    LET w1 == Logged(w, w.f.ws, w.f.s_msg, ok)
    IN  IF ok
        THEN [w1 EXCEPT !.f.pc = "finish"]
        ELSE [w1 EXCEPT !.f.d_user = w.f.user, !.f.d_ws = NoConn,
                        !.f.d_from = "endpoint", !.f.pc = "d_begin"]

\* the endpoint returns after its disconnect(user_id)
EndpointEnd(w) ==
    [w EXCEPT !.ended = @ \cup {w.f.ws}, !.f.pc = "finish"]

\* --------------------------------------------------------- segments
\* The top-level call returns: its coroutine is idle again
Finish(w) ==
    [w EXCEPT
       !.last = [ op |-> w.f.op, user |-> w.f.user, ws |-> w.f.ws,
                  msg |-> IF w.f.op = "broadcast" THEN w.f.b_msg
                          ELSE w.f.s_msg,
                  ret |-> w.f.ret, stage |-> w.f.g_stage,
                  snap |-> w.f.g_snap, ok |-> w.f.g_ok, fail |-> w.f.g_fail,
                  abort |-> w.f.g_abort, msgs |-> w.f.r_msgs,
                  queue |-> w.f.g_queue ],
       !.f = IdleFrame]

\* one step of the running coroutine; at an await it stays where it is
Step(w, ch, rz) ==
    CASE w.f.pc = "d_begin" -> DisconnectBegin(w, rz)
      [] w.f.pc = "d_all_loop" -> DisconnectAllLoop(w, ch, rz)
      [] w.f.pc = "d_tail" -> DisconnectTail(w, rz)
      [] w.f.pc = "d_ret" -> DisconnectReturn(w)
      [] w.f.pc = "s_begin" -> SendBegin(w)
      [] w.f.pc = "s_loop" -> SendLoop(w, ch)
      [] w.f.pc = "s_queue" -> SendQueue(w)
      [] w.f.pc = "s_ret" -> SendReturn(w)
      [] w.f.pc = "r_begin" -> ReplayBegin(w)
      [] w.f.pc = "r_loop" -> ReplayLoop(w)
      [] w.f.pc = "b_begin" -> BroadcastBegin(w)
      [] w.f.pc = "b_next" -> BroadcastNext(w)
      [] w.f.pc = "b_inner" -> BroadcastInner(w, ch)
      [] w.f.pc = "k_begin" -> CleanupBegin(w)
      [] w.f.pc = "k_loop" -> CleanupLoop(w, ch)
      [] w.f.pc = "h_begin" -> MessageBegin(w)
      [] w.f.pc = "e_begin" -> ReceiveBegin(w)
      [] w.f.pc = "e_end" -> EndpointEnd(w)
      [] w.f.pc = "finish" -> Finish(w)
      [] OTHER -> w

Step4(w, ch, rz) == Step(Step(Step(Step(w, ch, rz), ch, rz), ch, rz), ch, rz)

Step16(w, ch, rz) ==
    Step4(Step4(Step4(Step4(w, ch, rz), ch, rz), ch, rz), ch, rz)

\* the running coroutine runs to its next await or to its return
RECURSIVE Run(_, _, _)
Run(w, ch, rz) ==
    IF w.f.pc \in AwaitLabels THEN w ELSE Run(Step16(w, ch, rz), ch, rz)

\* ------------------------------------------------------------- actions
\* A dict iterator is alive only inside a broadcast; with none alive the
\* deleted slots of the entry array cannot be observed and are dropped.
IterAlive(t, f) ==
    \E x \in Tasks : (IF x = t THEN f ELSE tasks[x]).op = "broadcast"

Commit(t, w) ==
    /\ active_connections' = w.ac
    /\ ac_order' = IF IterAlive(t, w.f) THEN w.ord ELSE Compact(w.ord)
    /\ connection_metadata' = w.meta
    /\ user_sessions' = w.sess
    /\ offline_messages' = w.off
    /\ connection_stats' = w.stats
    /\ ws_state' = w.ws
    /\ sent_log' = w.log
    /\ enqueued' = w.enq
    /\ replayed' = w.rep
    /\ endpoint_ended' = w.ended
    /\ status_given' = w.given
    /\ last' = w.last
    /\ tasks' = [tasks EXCEPT ![t] = w.f]
    /\ UNCHANGED << simple_vars, learning_vars >>

Begin(t, frame, ch, rz) == Commit(t, Run([World(t) EXCEPT !.f = frame], ch, rz))

\* A call starts on an idle coroutine (the first idle one: coroutines are
\* interchangeable)
CanStart(t) ==
    /\ tasks[t].pc = "idle"
    /\ \A x \in Tasks : x < t => tasks[x].pc # "idle"

\* the websockets a loop of coroutine t can come to next
Choices(t) ==
    LET cs == UNION {active_connections[u] : u \in DOMAIN active_connections}
              \cup DOMAIN connection_metadata
              \cup tasks[t].s_todo \cup tasks[t].b_todo \cup tasks[t].d_todo
              \cup {e[1] : e \in tasks[t].k_todo}
    IN  IF cs = {} THEN {NoConn} ELSE cs

\* the rebuild of the entry array matters only while an iterator is alive
Resizes == IF \E x \in Tasks : tasks[x].op = "broadcast" THEN BOOLEAN
           ELSE {FALSE}

\* websocket_endpoint calls connect(websocket, user_id) for a websocket that
\* has just arrived; the call suspends in websocket.accept()
StartConnectAs(t, u) ==
    /\ CanStart(t)
    /\ n_ops' = n_ops + 1
    /\ \E c \in Conns :
          /\ ws_state[c] = "NEW"
          /\ \A x \in Conns : ws_state[x] = "NEW" => c <= x
          /\ ws_user' = [ws_user EXCEPT ![c] = u]
          /\ Commit(t, [World(t) EXCEPT
                          !.ws[c] = "CONNECTING",
                          !.f = [IdleFrame EXCEPT !.op = "connect",
                                    !.pc = "accept", !.ws = c, !.user = u,
                                    !.g_snap = AcGet(active_connections, u),
                                    !.g_queue = offline_messages[u]]])
    /\ UNCHANGED << now, next_msg >>

StartConnect(t) == \E u \in Users : StartConnectAs(t, u)

\* disconnect(user_id, websocket) or disconnect(user_id)
StartDisconnect(t) ==
    /\ CanStart(t)
    /\ n_ops' = n_ops + 1
    /\ \E u \in Users, c \in Conns \cup {NoConn}, ch \in Choices(t), rz \in Resizes :
          /\ c # NoConn => ws_state[c] # "NEW" /\ ws_user[c] = u
          /\ Begin(t, [IdleFrame EXCEPT !.op = "disconnect", !.pc = "d_begin",
                          !.user = u, !.ws = c, !.d_user = u, !.d_ws = c],
                   ch, rz)
    /\ UNCHANGED << ws_user, now, next_msg >>

\* send_to_user(user_id, message) with a new message
StartSendTo(t, u) ==
    /\ CanStart(t)
    /\ n_ops' = n_ops + 1
    /\ next_msg' = next_msg + 1
    /\ \E ch \in Choices(t) :
          Begin(t, [IdleFrame EXCEPT !.op = "send", !.pc = "s_begin",
                       !.user = u, !.s_user = u,
                       !.s_msg = Msg("msg", next_msg + 1)],
                ch, FALSE)
    /\ UNCHANGED << ws_user, now >>

StartSend(t) == \E u \in Users : StartSendTo(t, u)

\* broadcast_to_all(message, exclude_user) with a new message
StartBroadcast(t) ==
    /\ CanStart(t)
    /\ n_ops' = n_ops + 1
    /\ next_msg' = next_msg + 1
    /\ \E x \in Users \cup {NoUser}, ch \in Choices(t) :
          Begin(t, [IdleFrame EXCEPT !.op = "broadcast", !.pc = "b_begin",
                       !.user = x, !.b_excl = x,
                       !.b_msg = Msg("bcast", next_msg + 1)],
                ch, FALSE)
    /\ UNCHANGED << ws_user, now >>

\* cleanup_inactive_connections()
StartCleanup(t) ==
    /\ CanStart(t)
    /\ n_ops' = n_ops + 1
    /\ \E ch \in Choices(t), rz \in Resizes :
          Begin(t, [IdleFrame EXCEPT !.op = "cleanup", !.pc = "k_begin"],
                ch, rz)
    /\ UNCHANGED << ws_user, now, next_msg >>

\* cleanup_inactive_connections(idle_threshold=0): the method takes no
\* argument but self, so the call raises TypeError before its body runs
StartCleanupWithThreshold(t) ==
    /\ CanStart(t)
    /\ n_ops' = n_ops + 1
    /\ \E ch \in Choices(t), rz \in Resizes :
          Begin(t, [IdleFrame EXCEPT !.op = "cleanup_threshold",
                                     !.g_stage = "TypeError",
                                     !.pc = "finish"],
                ch, rz)
    /\ UNCHANGED << ws_user, now, next_msg >>

\* websocket.accept() completes: it can succeed only on a websocket that
\* nobody closed meanwhile
Accept(t) ==
    /\ tasks[t].pc = "accept"
    /\ \E ok \in BOOLEAN, ch \in Choices(t), rz \in Resizes :
          /\ ok => ws_state[tasks[t].ws] = "CONNECTING"
          /\ Commit(t, Run(AcceptDone(World(t), ok, rz), ch, rz))
    /\ UNCHANGED << ws_user, now, next_msg, n_ops >>

\* a send_text can succeed only on an open websocket
CanSend(c, ok) == ok => ws_state[c] = "OPEN"

Confirm(t) ==
    /\ tasks[t].pc = "confirm"
    /\ \E ok \in BOOLEAN, ch \in Choices(t), rz \in Resizes :
          /\ CanSend(tasks[t].ws, ok)
          /\ Commit(t, Run(ConfirmDone(World(t), ok), ch, rz))
    /\ UNCHANGED << ws_user, now, next_msg, n_ops >>

Send(t) ==
    /\ tasks[t].pc = "send"
    /\ \E ok \in BOOLEAN, ch \in Choices(t), rz \in Resizes :
          /\ CanSend(tasks[t].s_cur, ok)
          /\ Commit(t, Run(SendDone(World(t), ok), ch, rz))
    /\ UNCHANGED << ws_user, now, next_msg, n_ops >>

BroadcastSend(t) ==
    /\ tasks[t].pc = "bsend"
    /\ \E ok \in BOOLEAN, ch \in Choices(t), rz \in Resizes :
          /\ CanSend(tasks[t].b_cur, ok)
          /\ Commit(t, Run(BroadcastSendDone(World(t), ok), ch, rz))
    /\ UNCHANGED << ws_user, now, next_msg, n_ops >>

CloseOne(t) ==
    /\ tasks[t].pc = "close_one"
    /\ \E ch \in Choices(t), rz \in Resizes :
          Commit(t, Run(CloseOneDone(World(t)), ch, rz))
    /\ UNCHANGED << ws_user, now, next_msg, n_ops >>

CloseAll(t) ==
    /\ tasks[t].pc = "close_all"
    /\ \E ch \in Choices(t), rz \in Resizes :
          Commit(t, Run(CloseAllDone(World(t)), ch, rz))
    /\ UNCHANGED << ws_user, now, next_msg, n_ops >>

\* handle_message(websocket, message) for a websocket that has arrived
StartHandleMessage(t) ==
    /\ CanStart(t)
    /\ n_ops' = n_ops + 1
    /\ \E c \in Conns, k \in MessageKinds, ch \in Choices(t) :
          /\ ws_state[c] # "NEW"
          /\ next_msg' = IF k \in {"ping", "voice_data"} THEN next_msg + 1
                         ELSE next_msg
          /\ Begin(t, [IdleFrame EXCEPT !.op = "message", !.pc = "h_begin",
                          !.ws = c, !.g_stage = k,
                          !.s_msg = CASE k = "ping" -> Msg("pong", next_msg + 1)
                                      [] k = "voice_data" ->
                                           Msg("voice_received", next_msg + 1)
                                      [] OTHER -> Msg("none", 0)],
                   ch, FALSE)
    /\ UNCHANGED << ws_user, now >>

\* The read loop of the endpoint of websocket c, whose connect has returned,
\* gets its next text; on a websocket that is not open receive_text raises.
StartReceive(t) ==
    /\ CanStart(t)
    /\ n_ops' = n_ops + 1
    /\ \E c \in Conns, k \in EndpointKinds, ch \in Choices(t) :
          /\ ws_state[c] # "NEW"
          /\ c \notin endpoint_ended
          /\ \A x \in Tasks :
                tasks[x].op \in {"connect", "receive"} => tasks[x].ws # c
          /\ ws_state[c] # "OPEN" => k = "close"
          /\ next_msg' = IF k \in {"ping", "voice_start"} THEN next_msg + 1
                         ELSE next_msg
          /\ Begin(t, [IdleFrame EXCEPT !.op = "receive", !.pc = "e_begin",
                          !.ws = c, !.user = ws_user[c], !.g_stage = k,
                          !.s_msg = CASE k = "ping" -> Msg("pong", next_msg + 1)
                                      [] k = "voice_start" ->
                                           Msg("voice_ready", next_msg + 1)
                                      [] OTHER -> Msg("none", 0)],
                   ch, FALSE)
    /\ UNCHANGED << ws_user, now >>

Pong(t) ==
    /\ tasks[t].pc = "pong"
    /\ \E ok \in BOOLEAN, ch \in Choices(t), rz \in Resizes :
          /\ CanSend(tasks[t].ws, ok)
          /\ Commit(t, Run(PongDone(World(t), ok), ch, rz))
    /\ UNCHANGED << ws_user, now, next_msg, n_ops >>

EndpointSend(t) ==
    /\ tasks[t].pc = "esend"
    /\ \E ok \in BOOLEAN, ch \in Choices(t), rz \in Resizes :
          /\ CanSend(tasks[t].ws, ok)
          /\ Commit(t, Run(EndpointSendDone(World(t), ok), ch, rz))
    /\ UNCHANGED << ws_user, now, next_msg, n_ops >>

\* time passes
Tick ==
    /\ now < MaxTick * TickStep
    /\ now' = now + TickStep
    /\ UNCHANGED << active_connections, ac_order, connection_metadata,
                    user_sessions, offline_messages, connection_stats,
                    ws_state, ws_user, sent_log, endpoint_ended, status_given,
                    enqueued, replayed, tasks, last, next_msg, n_ops,
                    simple_vars, learning_vars >>

Init ==
    /\ active_connections = << >>
    /\ ac_order = << >>
    /\ connection_metadata = << >>
    /\ user_sessions = << >>
    /\ offline_messages = [u \in Users |-> << >>]
    /\ connection_stats = [total_connections |-> 0, active_connections |-> 0]
    /\ ws_state = [c \in Conns |-> "NEW"]
    /\ ws_user = [c \in Conns |-> NoUser]
    /\ sent_log = [c \in Conns |-> << >>]
    /\ endpoint_ended = {}
    /\ status_given = {}
    /\ enqueued = [u \in Users |-> << >>]
    /\ replayed = {}
    /\ tasks = [t \in Tasks |-> IdleFrame]
    /\ last = NoLast
    /\ now = 0
    /\ next_msg = 0
    /\ n_ops = 0
    /\ simple_active_connections = << >>
    /\ simple_user_connections = << >>
    /\ simple_ws = [c \in Conns |-> "NEW"]
    /\ simple_owner = [c \in Conns |-> NoUser]
    /\ simple_received = [c \in Conns |-> << >>]
    /\ simple_last = [op |-> "none", user |-> NoUser, ws |-> NoConn, id |-> 0,
                      to |-> {}]
    /\ simple_ops = 0
    /\ mood_patterns = << >>
    /\ mood_insights = << >>
    /\ learning_day = 0
    /\ learning_op = "none"

Next ==
    \/ \E t \in Tasks : n_ops < MaxOps /\ StartConnect(t)
    \/ \E t \in Tasks : n_ops < MaxOps /\ StartDisconnect(t)
    \/ \E t \in Tasks : n_ops < MaxOps /\ next_msg < MaxMsg /\ StartSend(t)
    \/ \E t \in Tasks : n_ops < MaxOps /\ next_msg < MaxMsg /\ StartBroadcast(t)
    \/ \E t \in Tasks : n_ops < MaxOps /\ StartCleanup(t)
    \/ \E t \in Tasks : Accept(t)
    \/ \E t \in Tasks : Confirm(t)
    \/ \E t \in Tasks : Send(t)
    \/ \E t \in Tasks : BroadcastSend(t)
    \/ \E t \in Tasks : CloseOne(t)
    \/ \E t \in Tasks : CloseAll(t)
    \/ Tick

Spec == Init /\ [][Next]_vars

\* One coroutine alone: every call runs to its return before the next starts
NextSeq ==
    \/ n_ops < MaxOpsSeq /\ StartConnect(1)
    \/ n_ops < MaxOpsSeq /\ StartDisconnect(1)
    \/ n_ops < MaxOpsSeq /\ next_msg < MaxMsg /\ StartSend(1)
    \/ n_ops < MaxOpsSeq /\ next_msg < MaxMsg /\ StartBroadcast(1)
    \/ n_ops < MaxOpsSeq /\ StartCleanup(1)
    \/ Accept(1)
    \/ Confirm(1)
    \/ Send(1)
    \/ BroadcastSend(1)
    \/ CloseOne(1)
    \/ CloseAll(1)
    \/ Tick

SpecSeq == Init /\ [][NextSeq]_vars

\* One coroutine alone and one user: messages are queued for the user while
\* it is offline, up to and beyond the capacity of the queue, and replayed
\* to the websockets the user connects with.
QueueUser == CHOOSE u \in Users : \A v \in Users : u <= v

NextQueue ==
    \/ next_msg < MaxEnqueue /\ StartSendTo(1, QueueUser)
    \/ (\A c \in Conns : ws_state[c] = "NEW") /\ StartConnectAs(1, QueueUser)
    \/ Accept(1)
    \/ Confirm(1)
    \/ Send(1)
    \/ CloseOne(1)

SpecQueue == Init /\ [][NextQueue]_vars

\* One websocket_endpoint at a time: connects, the texts that arrive on the
\* connections (through the endpoint's read loop or handle_message), the
\* idle sweep, and time.
NextInbound ==
    \/ n_ops < MaxOpsIn /\ StartConnect(1)
    \/ n_ops < MaxOpsIn /\ StartHandleMessage(1)
    \/ n_ops < MaxOpsIn /\ StartReceive(1)
    \/ n_ops < MaxOpsIn /\ StartCleanup(1)
    \/ n_ops < MaxOpsIn /\ StartCleanupWithThreshold(1)
    \/ Accept(1)
    \/ Confirm(1)
    \/ Send(1)
    \/ Pong(1)
    \/ EndpointSend(1)
    \/ CloseOne(1)
    \/ CloseAll(1)
    \/ Tick

SpecInbound == Init /\ [][NextInbound]_vars

\* ------------------------------------- main_simple.py: WebSocketManager
\* A websocket of main_simple.py is NEW until its endpoint runs, OPEN after
\* accept, GONE once its client has gone away (the next receive_text raises
\* WebSocketDisconnect, a send_text on it raises), CLOSED when its endpoint
\* has returned.  manager.disconnect has no await and connect registers
\* right after its only one, so each call below is one step.

\* list.remove(x): the first occurrence goes
RECURSIVE RemoveFirst(_, _)
RemoveFirst(list, x) ==
    IF list = << >> THEN << >>
    ELSE IF Head(list) = x THEN Tail(list)
    ELSE << Head(list) >> \o RemoveFirst(Tail(list), x)

\* the elements of a list
Elements(list) == {list[i] : i \in DOMAIN list}

\* (faulty variant) disconnect deletes the user's entry only if it is this
\* websocket's
SimpleDisconnectOwnEntry(uc, websocket, user_id) ==
    IF user_id \in DOMAIN uc /\ uc[user_id] = websocket
    THEN DictDel(uc, user_id)
    ELSE uc

\* disconnect(websocket, user_id): what becomes of user_connections
SimpleDisconnect(uc, websocket, user_id) ==
    IF user_id \in DOMAIN uc THEN DictDel(uc, user_id) ELSE uc

\* a text sent on a websocket
SimpleText(kind, id) == [kind |-> kind, id |-> id]

\* the websockets of cs on which send_text succeeds (on the others it raises)
SimpleReached(cs) == {c \in cs : simple_ws[c] = "OPEN"}

\* send_text on each websocket of cs
SimpleDeliver(cs, text) ==
    [c \in Conns |-> IF c \in SimpleReached(cs)
                     THEN Append(simple_received[c], text)
                     ELSE simple_received[c]]

\* websocket_endpoint up to its loop: manager.connect(websocket, user_id);
\* if accept raises, the endpoint ends with nothing registered
SimpleConnect ==
    /\ \E c \in Conns, u \in Users, ok \in BOOLEAN :
          /\ simple_ws[c] = "NEW"
          /\ simple_owner' = [simple_owner EXCEPT ![c] = u]
          /\ simple_last' = [op |-> "connect", user |-> u, ws |-> c,
                             id |-> simple_ops + 1, to |-> {}]
          /\ IF ok
             THEN /\ simple_ws' = [simple_ws EXCEPT ![c] = "OPEN"]
                  /\ simple_active_connections' =
                        Append(simple_active_connections, c)
                  /\ simple_user_connections' =
                        (u :> c) @@ simple_user_connections
             ELSE /\ simple_ws' = [simple_ws EXCEPT ![c] = "CLOSED"]
                  /\ UNCHANGED << simple_active_connections,
                                  simple_user_connections >>
    /\ simple_ops' = simple_ops + 1
    /\ UNCHANGED << simple_received, manager_vars, learning_vars >>

\* one round of the endpoint's loop: a text arrives and is echoed
SimpleEcho ==
    /\ \E c \in Conns :
          /\ simple_ws[c] = "OPEN"
          /\ simple_received' =
                SimpleDeliver({c}, SimpleText("echo", simple_ops + 1))
          /\ simple_last' = [op |-> "echo", user |-> simple_owner[c],
                             ws |-> c, id |-> simple_ops + 1, to |-> {c}]
    /\ simple_ops' = simple_ops + 1
    /\ UNCHANGED << simple_active_connections, simple_user_connections,
                    simple_ws, simple_owner, manager_vars, learning_vars >>

\* the client of an open websocket goes away
SimpleClientGone ==
    /\ \E c \in Conns :
          /\ simple_ws[c] = "OPEN"
          /\ simple_ws' = [simple_ws EXCEPT ![c] = "GONE"]
          /\ simple_last' = [op |-> "gone", user |-> simple_owner[c],
                             ws |-> c, id |-> simple_ops + 1, to |-> {}]
    /\ simple_ops' = simple_ops + 1
    /\ UNCHANGED << simple_active_connections, simple_user_connections,
                    simple_owner, simple_received, manager_vars,
                    learning_vars >>

\* receive_text raises WebSocketDisconnect: manager.disconnect(websocket,
\* user_id), and the endpoint returns
SimpleLoopEnds ==
    /\ \E c \in Conns :
          /\ simple_ws[c] = "GONE"
          /\ simple_active_connections' =
                RemoveFirst(simple_active_connections, c)
          /\ simple_user_connections' =
                SimpleDisconnect(simple_user_connections, c, simple_owner[c])
          /\ simple_ws' = [simple_ws EXCEPT ![c] = "CLOSED"]
          /\ simple_last' = [op |-> "disconnect", user |-> simple_owner[c],
                             ws |-> c, id |-> simple_ops + 1, to |-> {}]
    /\ simple_ops' = simple_ops + 1
    /\ UNCHANGED << simple_owner, simple_received, manager_vars,
                    learning_vars >>

\* send_personal_message(message, user_id)
SimpleSendPersonal ==
    /\ \E u \in Users :
          /\ simple_received' =
                IF u \in DOMAIN simple_user_connections
                THEN SimpleDeliver({simple_user_connections[u]},
                                   SimpleText("personal", simple_ops + 1))
                ELSE simple_received
          /\ simple_last' =
                [op |-> "personal", user |-> u, ws |-> NoConn,
                 id |-> simple_ops + 1,
                 to |-> IF u \in DOMAIN simple_user_connections
                        THEN SimpleReached({simple_user_connections[u]})
                        ELSE {}]
    /\ simple_ops' = simple_ops + 1
    /\ UNCHANGED << simple_active_connections, simple_user_connections,
                    simple_ws, simple_owner, manager_vars, learning_vars >>

\* broadcast(message): every websocket of the list, errors ignored
SimpleBroadcast ==
    /\ simple_received' =
          SimpleDeliver(Elements(simple_active_connections),
                        SimpleText("broadcast", simple_ops + 1))
    /\ simple_last' = [op |-> "broadcast", user |-> NoUser, ws |-> NoConn,
                       id |-> simple_ops + 1,
                       to |-> SimpleReached(
                                  Elements(simple_active_connections))]
    /\ simple_ops' = simple_ops + 1
    /\ UNCHANGED << simple_active_connections, simple_user_connections,
                    simple_ws, simple_owner, manager_vars, learning_vars >>

NextSimple ==
    \/ simple_ops < MaxOpsSimple /\ SimpleConnect
    \/ simple_ops < MaxOpsSimple /\ SimpleEcho
    \/ simple_ops < MaxOpsSimple /\ SimpleClientGone
    \/ simple_ops < MaxOpsSimple /\ SimpleLoopEnds
    \/ simple_ops < MaxOpsSimple /\ SimpleSendPersonal
    \/ simple_ops < MaxOpsSimple /\ SimpleBroadcast

SpecSimple == Init /\ [][NextSimple]_vars

\* --------------------------------- learning_system.py: mood insights
\* the hours of day and the moods that are learned
Hours == {9, 21}
Moods == {"happy", "sad", "tired"}

\* _learn_mood_patterns: the pattern is appended, then only the patterns
\* whose timestamp is later than now - 30 days are kept
LearnMoodPattern(data, hour, mood, today) ==
    LET all == Append(data, [mood |-> mood, hour |-> hour, day |-> today])
        Recent(p) == p.day > today - RetentionDays
    IN  SelectSeq(all, Recent)

\* the keys of hourly_moods in the order in which the dict got them
RECURSIVE HourKeys(_)
HourKeys(data) ==
    IF data = << >> THEN << >>
    ELSE LET before == HourKeys(SubSeq(data, 1, Len(data) - 1))
             h == data[Len(data)].hour
         IN  IF \E i \in DOMAIN before : before[i] = h
             THEN before
             ELSE Append(before, h)

\* hourly_moods[hour]: the moods of the patterns of that hour, in order
RECURSIVE HourlyMoods(_, _)
HourlyMoods(data, hour) ==
    IF data = << >> THEN << >>
    ELSE LET before == HourlyMoods(SubSeq(data, 1, Len(data) - 1), hour)
             p == data[Len(data)]
         IN  IF p.hour = hour THEN Append(before, p.mood) ELSE before

\* Counter(moods)[mood]
MoodCount(moods, mood) ==
    Cardinality({i \in DOMAIN moods : moods[i] = mood})

\* Counter(moods).most_common(1)[0][0]: the highest count, and among equal
\* counts the mood that entered the counter first
MostCommonMood(moods) ==
    LET i == CHOOSE k \in DOMAIN moods :
                 /\ \A j \in DOMAIN moods :
                       MoodCount(moods, moods[j]) <= MoodCount(moods, moods[k])
                 /\ \A j \in 1 .. (k - 1) :
                       MoodCount(moods, moods[j]) < MoodCount(moods, moods[k])
    IN  moods[i]

\* (faulty variant) the share of the most frequent mood must exceed 60%
ConsistentStrictly(count, total) ==
    count * ConsistencyDen > ConsistencyNum * total

\* mood_counter[most_common_mood] / len(moods) >= 0.6; for these sizes the
\* quotient of two ints, rounded to a double, is at least the double 0.6
\* exactly when the fraction is at least 6/10
Consistent(count, total) ==
    count * ConsistencyDen >= ConsistencyNum * total

\* the insights appended for one hour of hourly_moods
HourInsight(data, hour) ==
    LET moods == HourlyMoods(data, hour)
    IN  IF Len(moods) >= MinMoodEvents
        THEN LET most_common_mood == MostCommonMood(moods)
                 count == MoodCount(moods, most_common_mood)
             IN  IF Consistent(count, Len(moods))
                 THEN << [type |-> "mood_pattern", hour |-> hour,
                          mood |-> most_common_mood,
                          confidence |-> << count, Len(moods) >>] >>
                 ELSE << >>
        ELSE << >>

\* the loop over hourly_moods.items()
RECURSIVE InsightsOver(_, _)
InsightsOver(data, hours) ==
    IF hours = << >> THEN << >>
    ELSE HourInsight(data, Head(hours)) \o InsightsOver(data, Tail(hours))

\* _generate_mood_insights(user_id), given the user's mood patterns
GenerateMoodInsights(data) ==
    IF data = << >> THEN << >> ELSE InsightsOver(data, HourKeys(data))

\* a context update with a mood arrives: _learn_mood_patterns
LearnMood ==
    /\ Len(mood_patterns) < MaxMoodEvents
    /\ \E hour \in Hours, mood \in Moods :
          mood_patterns' =
              LearnMoodPattern(mood_patterns, hour, mood, learning_day)
    /\ mood_insights' = << >>
    /\ learning_op' = "learn"
    /\ UNCHANGED << learning_day, manager_vars, simple_vars >>

\* insights are asked for: _generate_mood_insights
MoodInsights ==
    /\ mood_insights' = GenerateMoodInsights(mood_patterns)
    /\ learning_op' = "insights"
    /\ UNCHANGED << mood_patterns, learning_day, manager_vars, simple_vars >>

\* days pass
DaysPass ==
    /\ learning_day + LearningDayStep <= MaxLearningDay
    /\ learning_day' = learning_day + LearningDayStep
    /\ mood_insights' = << >>
    /\ learning_op' = "days"
    /\ UNCHANGED << mood_patterns, manager_vars, simple_vars >>

NextLearning ==
    \/ LearnMood
    \/ MoodInsights
    \/ DaysPass

SpecLearning == Init /\ [][NextLearning]_vars

\* the later connection b of user u outlives the earlier one a: both were
\* registered for u, b still is in the list
Outlives(a, b, u) ==
    /\ a # b
    /\ simple_owner[a] = u
    /\ simple_owner[b] = u
    /\ b \in Elements(simple_active_connections)
    /\ simple_ws[b] = "OPEN"

\* C28: in the main_simple.py manager a user maps to at most one
\* connection.  When a connection of a user whose later connection is still
\* in active_connections disconnects, the user's entry in user_connections
\* is deleted and the later connection stays in active_connections;
\* send_personal_message to a user without an entry delivers nothing, while
\* broadcast reaches every open connection of active_connections, the later
\* one included.
C28_EarlierDisconnectDropsUser ==
    [][ /\ \A a \in Conns, b \in Conns, u \in Users :
             ( /\ Outlives(a, b, u)
               /\ simple_last'.op = "disconnect"
               /\ simple_last'.ws = a
               /\ simple_last'.id = simple_ops + 1 )
             => /\ u \notin DOMAIN simple_user_connections'
                /\ b \in Elements(simple_active_connections')
                /\ a \notin Elements(simple_active_connections')
        /\ \A u \in Users :
             ( /\ simple_last'.op = "personal"
               /\ simple_last'.user = u
               /\ simple_last'.id = simple_ops + 1
               /\ u \notin DOMAIN simple_user_connections )
             => /\ simple_received' = simple_received
                /\ simple_last'.to = {}
        /\ ( /\ simple_last'.op = "broadcast"
             /\ simple_last'.id = simple_ops + 1 )
           => \A b \in Conns :
                 ( b \in Elements(simple_active_connections)
                   /\ simple_ws[b] = "OPEN" )
                 => simple_received'[b] =
                       Append(simple_received[b],
                              SimpleText("broadcast", simple_ops + 1))
      ]_vars

\* the earlier connection a of user u has disconnected, a broadcast then
\* reached the later connection b, and a personal message to u reached
\* nobody
C28_Witness ==
    \E a \in Conns, b \in Conns, u \in Users :
        /\ Outlives(a, b, u)
        /\ simple_ws[a] = "CLOSED"
        /\ a \notin Elements(simple_active_connections)
        /\ u \notin DOMAIN simple_user_connections
        /\ simple_last.op = "personal"
        /\ simple_last.user = u
        /\ simple_last.to = {}
        /\ Len(simple_received[b]) > 0
        /\ simple_received[b][Len(simple_received[b])] =
              SimpleText("broadcast", simple_last.id - 1)

\* ------------------------------------------------------------ queries
get_active_users == DOMAIN active_connections

get_user_connection_count(u) == Cardinality(AcGet(active_connections, u))

\* no top-level call of the manager is in progress
Quiescent == \A t \in Tasks : tasks[t].pc = "idle"

Registered == UNION {active_connections[u] : u \in DOMAIN active_connections}

\* ------------------------------------------------------------- claims
\* C1: in every reachable state, also those seen by other coroutines while
\* a call is suspended at an await, a user id is in get_active_users() if
\* and only if its get_user_connection_count is positive.
C1_ActiveIffCount ==
    \A u \in Users : u \in get_active_users <=> get_user_connection_count(u) > 0

\* C2: once every connect and disconnect (and every other call) has
\* returned, a user has a session if and only if it has at least one
\* registered connection.
C2_SessionIffConnected ==
    Quiescent =>
        \A u \in Users :
            u \in DOMAIN user_sessions <=> get_user_connection_count(u) > 0

\* C2 witness: a user's only connection was confirmed and then removed by a
\* disconnect, which deleted the session, while another user keeps its own.
C2_Witness ==
    /\ Quiescent
    /\ last.op = "disconnect"
    /\ last.user \notin DOMAIN user_sessions
    /\ \E c \in Conns : /\ ws_user[c] = last.user
                        /\ ws_state[c] = "CLOSED"
                        /\ sent_log[c] # << >>
                        /\ sent_log[c][1].ok
    /\ \E u \in DOMAIN user_sessions : user_sessions[u].active_connections = 1

\* the top-level calls that have returned
OpsDone == n_ops - Cardinality({t \in Tasks : tasks[t].pc # "idle"})

\* this step calls send_to_user(u, message) from the top level
SendCalled(u) ==
    /\ n_ops' = n_ops + 1
    /\ \/ \E t \in Tasks : /\ tasks[t].pc = "idle"
                           /\ tasks'[t].op = "send"
                           /\ tasks'[t].user = u
       \/ OpsDone' = OpsDone + 1 /\ last'.op = "send" /\ last'.user = u

\* C3: send_to_user for a user with no registered connection returns false
\* within the same atomic segment (nothing is raised to the caller), appends
\* exactly that message to the tail of the user's offline queue, and changes
\* no other queue and no connection set.
C3_SendOffline ==
    [][\A u \in Users :
          (SendCalled(u) /\ get_user_connection_count(u) = 0) =>
              /\ OpsDone' = OpsDone + 1
              /\ last'.op = "send" /\ last'.user = u
              /\ last'.msg = Msg("msg", next_msg')
              /\ last'.ret = FALSE
              /\ offline_messages' =
                    [offline_messages EXCEPT ![u] = Append(@, last'.msg)]
              /\ \A v \in Users : AcGet(active_connections', v) =
                                  AcGet(active_connections, v)]_vars

\* C3 witness: a second message was queued behind a first for an offline user
C3_Witness ==
    /\ last.op = "send"
    /\ last.ret = FALSE
    /\ last.snap = {}
    /\ Len(offline_messages[last.user]) = 2
    /\ offline_messages[last.user][2] = last.msg

\* the failed sends of the send_to_user call of coroutine t after this step
FailedAfter(t) ==
    IF tasks'[t].op = "send" THEN tasks'[t].g_fail ELSE last'.fail

\* C4: a send_to_user for a user with registered connections attempts every
\* connection of its snapshot, returns true iff some send succeeded, removes
\* from the registry only connections whose send failed, leaves no failed
\* connection registered, and returns normally.
C4_SendOnline ==
    [][\A t \in Tasks :
          (tasks[t].op = "send" /\ tasks'[t] # tasks[t]) =>
              /\ (Registered \ Registered') \subseteq FailedAfter(t)
              /\ (tasks'[t].pc = "idle" /\ last'.snap # {}) =>
                    /\ last'.op = "send"
                    /\ last'.ok \cup last'.fail = last'.snap
                    /\ last'.ret = (last'.ok # {})
                    /\ last'.fail \cap Registered' = {}]_vars

\* C4 witness: a send reached one connection and failed on another
C4_Witness ==
    /\ last.op = "send"
    /\ last.ret = TRUE
    /\ last.ok # {}
    /\ last.fail # {}
    /\ last.ok \subseteq Registered

Min(a, b) == IF a <= b THEN a ELSE b

\* the last n entries of a sequence
LastN(seq, n) == [i \in 1 .. n |-> seq[Len(seq) - n + i]]

\* the ids 1 .. n queued in this order
Numbered(q, first) == \A i \in 1 .. Len(q) : q[i] = Msg("msg", first + i - 1)

\* C5: a user's offline queue never holds more than max_queue_size entries
\* and is always the last min(n, max_queue_size) of the n messages queued for
\* the user since the queue was last cleared, in their order; the copy a
\* replay takes of it (the flush) is that same list.
C5_QueueNewest ==
    /\ \A u \in Users :
          /\ Len(offline_messages[u]) <= max_queue_size
          /\ offline_messages[u] =
                LastN(enqueued[u], Min(Len(enqueued[u]), max_queue_size))
    /\ \A t \in Tasks :
          (tasks[t].op = "connect" /\ tasks[t].pc = "send" /\ tasks[t].r_i = 1)
              => tasks[t].r_msgs =
                    LastN(enqueued[tasks[t].user],
                          Min(Len(enqueued[tasks[t].user]), max_queue_size))

\* C5 witness: MaxEnqueue messages (five more than the capacity) were queued
\* and the replay took exactly the newest max_queue_size of them, in order.
C5_Witness ==
    \E t \in Tasks :
        /\ tasks[t].op = "connect" /\ tasks[t].pc = "send" /\ tasks[t].r_i = 1
        /\ Len(enqueued[tasks[t].user]) = MaxEnqueue
        /\ Numbered(enqueued[tasks[t].user], 1)
        /\ Len(tasks[t].r_msgs) = max_queue_size
        /\ Numbered(tasks[t].r_msgs, MaxEnqueue - max_queue_size + 1)

\* s is a subsequence of t
RECURSIVE IsSubseq(_, _)
IsSubseq(s, t) ==
    IF s = << >> THEN TRUE
    ELSE IF t = << >> THEN FALSE
    ELSE IF s[1] = t[1] THEN IsSubseq(Tail(s), Tail(t))
    ELSE IsSubseq(s, Tail(t))

\* the payloads that reached the peer of a websocket, in the order sent
Delivered(log) ==
    LET sel == SelectSeq(log, LAMBDA e : e.ok)
    IN  [i \in 1 .. Len(sel) |-> sel[i].p]

\* the offline_message wrappers of a list of messages
Wrapped(msgs) == [i \in 1 .. Len(msgs) |-> OfflineWrap(msgs[i])]

\* this step is the return of the connect call of coroutine t
ConnectReturns(t) ==
    /\ tasks[t].op = "connect"
    /\ tasks[t].pc # "idle"
    /\ tasks'[t].pc = "idle"

Attempted(log) == [i \in 1 .. Len(log) |-> log[i].p]

QueuedIds(q) == {q[i].id : i \in 1 .. Len(q)}

\* C7: a message leaves a user's offline queue only after the replay loop of
\* a connect of that user has taken it up (handed it to send_to_user).
C7_RemovedOnlyAfterReplay ==
    [][\A u \in Users :
          (QueuedIds(offline_messages[u]) \ QueuedIds(offline_messages'[u]))
              \subseteq replayed']_vars

\* C8: no connection is delivered the same payload twice.
C8_AtMostOnce ==
    \A c \in Conns :
        \A i, j \in 1 .. Len(Delivered(sent_log[c])) :
            Delivered(sent_log[c])[i] = Delivered(sent_log[c])[j] => i = j

\* the connections of user x
ConnectionsOf(x) == {c \in Conns : ws_user[c] = x}

\* C9: a broadcast that has returned, with no send having failed, has
\* delivered to every connection of every active user other than the
\* excluded one and to no connection of the excluded user.
C9_BroadcastExclude ==
    (Quiescent /\ last.op = "broadcast" /\ last.fail = {}) =>
        /\ last.ok = Due(active_connections, last.user)
        /\ last.ok \cap ConnectionsOf(last.user) = {}

\* C10: a broadcast that has returned (here one whose exclude_user is None
\* or a non-zero id) has attempted a send on every connection that was
\* registered, for a user other than the excluded one, when it was called.
C10_BroadcastNotAborted ==
    (Quiescent /\ last.op = "broadcast" /\ last.user # 0) =>
        last.snap \subseteq (last.ok \cup last.fail)

\* this step is taken by a top-level disconnect(u, c) of coroutine t
DisconnectStep(t, u, c) ==
    /\ tasks'[t] # tasks[t]
    /\ \/ tasks[t].op = "disconnect" /\ tasks[t].user = u /\ tasks[t].ws = c
       \/ /\ tasks[t].pc = "idle" /\ tasks'[t].op = "disconnect"
          /\ tasks'[t].user = u /\ tasks'[t].ws = c
       \/ /\ tasks[t].pc = "idle" /\ tasks'[t].pc = "idle"
          /\ last'.op = "disconnect" /\ last'.user = u /\ last'.ws = c
          /\ n_ops' = n_ops + 1

\* the session of v is the same before and after the step
SessionSame(v) ==
    /\ v \in DOMAIN user_sessions <=> v \in DOMAIN user_sessions'
    /\ v \in DOMAIN user_sessions => user_sessions'[v] = user_sessions[v]

\* C11: every step of a disconnect(u, c) with a specific websocket c removes
\* nothing from u's connection set but c and nothing from the metadata map
\* but c's entry, adds nothing to either, and leaves the connection sets and
\* sessions of all other users and every offline queue unchanged; the call
\* itself (before its close is awaited) takes c out of both.
C11_DisconnectOneFrame ==
    [][\A t \in Tasks, u \in Users, c \in Conns :
          DisconnectStep(t, u, c) =>
              /\ AcGet(active_connections, u) \ {c}
                    \subseteq AcGet(active_connections', u)
              /\ AcGet(active_connections', u)
                    \subseteq AcGet(active_connections, u)
              /\ (DOMAIN connection_metadata) \ {c}
                    \subseteq DOMAIN connection_metadata'
              /\ DOMAIN connection_metadata' \subseteq DOMAIN connection_metadata
              /\ \A d \in DOMAIN connection_metadata' :
                    connection_metadata'[d] = connection_metadata[d]
              /\ \A v \in Users \ {u} :
                    /\ AcGet(active_connections', v) = AcGet(active_connections, v)
                    /\ SessionSame(v)
              /\ offline_messages' = offline_messages
              /\ tasks[t].pc = "idle" =>
                    /\ c \notin Registered'
                    /\ c \notin DOMAIN connection_metadata']_vars

\* C11 witness: a user registered two connections and disconnected one; it
\* is still active with a connection count of 1 and a session saying so.
C11_Witness ==
    /\ Quiescent
    /\ last.op = "disconnect"
    /\ last.ws # NoConn
    /\ ws_state[last.ws] = "CLOSED"
    /\ sent_log[last.ws] # << >>
    /\ last.user \in get_active_users
    /\ get_user_connection_count(last.user) = 1
    /\ last.ws \notin DOMAIN connection_metadata
    /\ active_connections[last.user] \subseteq DOMAIN connection_metadata
    /\ user_sessions[last.user].active_connections = 1

\* user u is gone from the registry: not active, no connection, no session,
\* and no metadata entry for any websocket that arrived for it
UserGone(u) ==
    /\ u \notin get_active_users
    /\ get_user_connection_count(u) = 0
    /\ u \notin DOMAIN user_sessions
    /\ ConnectionsOf(u) \cap DOMAIN connection_metadata = {}

\* C12: with one caller at a time, after a disconnect(u) of all connections
\* has returned, or after a disconnect(u, c) has returned that closed the
\* last open connection of u, user u is gone from the registry.
C12_DisconnectAllGone ==
    (/\ Quiescent
     /\ last.op = "disconnect"
     /\ \/ last.ws = NoConn
        \/ \A c \in ConnectionsOf(last.user) : ws_state[c] = "CLOSED")
        => UserGone(last.user)

\* C12 witness: two connections of a user were registered and confirmed,
\* and one disconnect(u) closed both and removed the user.
C12_Witness ==
    /\ Quiescent
    /\ n_ops = 3
    /\ last.op = "disconnect"
    /\ last.ws = NoConn
    /\ Cardinality(ConnectionsOf(last.user)) = 2
    /\ \A c \in ConnectionsOf(last.user) :
          /\ ws_state[c] = "CLOSED"
          /\ sent_log[c] # << >>
          /\ sent_log[c][1].ok
    /\ UserGone(last.user)

\* this step belongs to a connect(c, u) of coroutine t whose handshake has
\* failed: the step in which accept raises, or a later one
RejectedStep(t, u, c) ==
    /\ tasks[t].op = "connect" /\ tasks[t].user = u /\ tasks[t].ws = c
    /\ tasks'[t] # tasks[t]
    /\ \/ tasks'[t].op = "connect" /\ tasks'[t].g_stage = "rejected"
       \/ tasks[t].g_stage = "rejected"

\* the session of u agrees with u's connection set
SessionCurrent(u) ==
    /\ u \in DOMAIN user_sessions
    /\ AcGet(active_connections, u) # {}
    /\ user_sessions[u].active_connections =
          Cardinality(AcGet(active_connections, u))

\* C13: from the step in which its handshake fails, a connect never has its
\* websocket in a connection set or in the metadata map, creates no session,
\* alters no session of another user and none of its own user that agrees
\* with that user's connection set, does not count the connection in
\* total_connections, and returns normally with the websocket closed.
C13_RejectedNeverRegistered ==
    [][\A t \in Tasks, u \in Users, c \in Conns :
          RejectedStep(t, u, c) =>
              /\ c \notin Registered'
              /\ c \notin DOMAIN connection_metadata'
              /\ DOMAIN user_sessions' \subseteq DOMAIN user_sessions
              /\ \A v \in Users \ {u} : SessionSame(v)
              /\ SessionCurrent(u) => SessionSame(u)
              /\ connection_stats'.total_connections =
                    connection_stats.total_connections
              /\ tasks[t].g_stage = "rejected" =>
                    /\ tasks'[t].pc = "idle"
                    /\ last'.op = "connect" /\ last'.ws = c
                    /\ last'.stage = "rejected"
                    /\ ws_state'[c] = "CLOSED"]_vars

\* C13 witness: a connect whose handshake failed has returned while the same
\* user keeps an earlier connection and its session.
C13_Witness ==
    /\ Quiescent
    /\ last.op = "connect"
    /\ last.stage = "rejected"
    /\ ws_state[last.ws] = "CLOSED"
    /\ sent_log[last.ws] = << >>
    /\ get_user_connection_count(last.user) = 1
    /\ user_sessions[last.user].active_connections = 1
    /\ connection_stats.total_connections = 1

\* the connections whose establishment lies more than the timeout back
Aged == {c \in DOMAIN connection_metadata :
            now - connection_metadata[c].connected_at > IdleTimeout}

\* this step belongs to a call of cleanup_inactive_connections by task t
CleanupStep(t) ==
    \/ tasks[t].op = "cleanup"
    \/ tasks[t].pc = "idle" /\ tasks'[t].op = "cleanup"
    \/ /\ tasks[t].pc = "idle" /\ n_ops' = n_ops + 1
       /\ \A x \in Tasks : tasks'[x].pc = "idle"
       /\ last'.op = "cleanup"

\* what the sweep of task t took for inactive, once the step is done
CleanupTaken(t) ==
    IF tasks'[t].op = "cleanup" THEN tasks'[t].g_snap ELSE last'.snap

\* C14: a sweep takes exactly the connections whose age since connected_at
\* exceeds the timeout at the moment of its scan, whatever the last_activity
\* of their users' sessions; every step of the sweep leaves the connections
\* it did not take registered with their metadata, and when it returns the
\* connections it took are in no connection set and have no metadata.
C14_SweepByAge ==
    [][\A t \in Tasks : CleanupStep(t) =>
          /\ tasks[t].pc = "idle" => CleanupTaken(t) = Aged
          /\ \A c \in Conns \ CleanupTaken(t) :
                /\ c \in Registered => c \in Registered'
                /\ c \in DOMAIN connection_metadata =>
                      /\ c \in DOMAIN connection_metadata'
                      /\ connection_metadata'[c] = connection_metadata[c]
          /\ tasks'[t].pc = "idle" =>
                \A c \in CleanupTaken(t) :
                    /\ c \notin Registered'
                    /\ c \notin DOMAIN connection_metadata']_vars

\* a sweep has returned having removed a connection of a user whose session
\* shows activity within the timeout, and having kept a younger connection
C14_Witness ==
    /\ Quiescent
    /\ last.op = "cleanup"
    /\ \E c \in last.snap, d \in Registered :
          /\ c \notin Registered
          /\ ws_user[c] = ws_user[d]
          /\ d \in DOMAIN connection_metadata
          /\ ws_user[d] \in DOMAIN user_sessions
          /\ now - user_sessions[ws_user[d]].last_activity <= IdleTimeout

\* C15: once an idle sweep asked for with idle_threshold = 0 is over, no
\* connection is registered: there is no active user, no session and no
\* connection metadata.
C15_SweepZeroRemovesAll ==
    (Quiescent /\ last.op = "cleanup_threshold") =>
        /\ get_active_users = {}
        /\ Registered = {}
        /\ DOMAIN user_sessions = {}
        /\ DOMAIN connection_metadata = {}

\* c is in no connection set and has no metadata entry
Unregistered(c) ==
    /\ c \notin Registered
    /\ c \notin DOMAIN connection_metadata

\* the users that have a connection
Connected == {v \in Users : AcGet(active_connections, v) # {}}

\* C16: a disconnect(u, c) called while c is unregistered (removed before,
\* or rejected at its handshake and never registered) changes nothing: no step
\* of it changes a connection set, the metadata map, a session or an offline
\* queue, and it returns normally with the active users being those that
\* have a connection, as before the call.  (A step after the call is known
\* to belong to such a call by u's session agreeing with u's set: a
\* disconnect that did remove c is suspended with the session not yet
\* updated.)
C16_DisconnectAgainNoOp ==
    [][\A t \in Tasks, u \in Users, c \in Conns :
         ( /\ DisconnectStep(t, u, c)
           /\ Unregistered(c)
           /\ tasks[t].pc # "idle" =>
                 (u \in DOMAIN user_sessions => SessionCurrent(u)) ) =>
            /\ \A v \in Users : AcGet(active_connections', v)
                                  = AcGet(active_connections, v)
            /\ connection_metadata' = connection_metadata
            /\ user_sessions' = user_sessions
            /\ offline_messages' = offline_messages
            /\ tasks[t].pc = "idle" => get_active_users = Connected
            /\ tasks'[t].pc = "idle" =>
                  /\ get_active_users' = Connected
                  /\ last'.op = "disconnect"]_vars

\* a connection has been disconnected a second time, its user still being
\* connected through another connection
C16_Witness ==
    /\ Quiescent
    /\ n_ops = 4
    /\ last.op = "disconnect"
    /\ last.ws # NoConn
    /\ ws_state[last.ws] = "CLOSED"
    /\ Unregistered(last.ws)
    /\ connection_stats.total_connections = 2
    /\ get_user_connection_count(last.user) = 1

\* the inbound texts that are malformed
Malformed == {"invalid_json", "no_type"}

\* this step is taken by coroutine t handling an inbound text of kind k that
\* arrived on websocket c (in the endpoint's read loop or in handle_message)
InboundStep(t, c, k) ==
    \/ /\ tasks[t].op \in {"message", "receive"}
       /\ tasks[t].ws = c /\ tasks[t].g_stage = k
       /\ tasks'[t] # tasks[t]
    \/ /\ tasks[t].pc = "idle" /\ tasks'[t].op \in {"message", "receive"}
       /\ tasks'[t].ws = c /\ tasks'[t].g_stage = k
    \/ /\ tasks[t].pc = "idle" /\ n_ops' = n_ops + 1
       /\ \A x \in Tasks : tasks'[x].pc = "idle"
       /\ last'.op \in {"message", "receive"}
       /\ last'.ws = c /\ last'.stage = k

\* C17: no step of the handling of a malformed inbound text (invalid JSON,
\* or an object without a type) that arrived on an open registered connection
\* closes or unregisters that connection: it stays open, in its user's
\* connection set and in the metadata map, and its user keeps a session.
C17_MalformedKeepsConnection ==
    [][\A t \in Tasks, c \in Conns, k \in Malformed :
         ( /\ InboundStep(t, c, k)
           /\ ws_state[c] = "OPEN"
           /\ c \in AcGet(active_connections, ws_user[c])
           /\ c \in DOMAIN connection_metadata
           /\ ws_user[c] \in DOMAIN user_sessions ) =>
            /\ ws_state'[c] = "OPEN"
            /\ c \in AcGet(active_connections', ws_user[c])
            /\ c \in DOMAIN connection_metadata'
            /\ ws_user[c] \in DOMAIN user_sessions']_vars

\* the await labels at which a send_text is under way
SendLabels == {"confirm", "send", "bsend", "pong", "esend"}

\* the websocket on which the frame's send_text is under way
SendTarget(f) ==
    CASE f.pc = "send" -> f.s_cur
      [] f.pc = "bsend" -> f.b_cur
      [] OTHER -> f.ws

\* in this step coroutine t calls send_text on websocket c
SendAttempted(t, c) ==
    /\ tasks'[t] # tasks[t]
    /\ tasks'[t].pc \in SendLabels
    /\ SendTarget(tasks'[t]) = c

\* C18: a connection goes from CONNECTING to OPEN to CLOSED only; a CLOSED
\* connection stays CLOSED and is not added to a connection set; and, under
\* every interleaving, send_text is not called on a connection that a
\* disconnect has unregistered and closed.
C18_SendOnlyWhileOpen ==
    [][\A c \in Conns :
         /\ ws_state'[c] # ws_state[c] =>
               <<ws_state[c], ws_state'[c]>> \in
                  {<<"NEW", "CONNECTING">>, <<"CONNECTING", "OPEN">>,
                   <<"CONNECTING", "CLOSED">>, <<"OPEN", "CLOSED">>}
         /\ ws_state[c] = "CLOSED" => (c \in Registered' => c \in Registered)
         /\ \A t \in Tasks : SendAttempted(t, c) =>
               ~ /\ ws_state[c] = "CLOSED"
                 /\ c \notin Registered
                 /\ c \notin DOMAIN connection_metadata]_vars

\* C19: whatever other coroutines register or unregister while it is
\* suspended at a send, a send_to_user that has returned has attempted every
\* connection of its copy, and a broadcast_to_all none of whose own sends
\* failed has not been ended by an exception of its iteration.
C19_ToleratesChanges ==
    /\ (last.op = "send" /\ last.snap # {}) =>
           last.ok \cup last.fail = last.snap
    /\ (last.op = "broadcast" /\ last.fail = {}) => ~last.abort

\* C20: once a disconnect(u) of all of u's connections has returned and no
\* other call is under way, every websocket of u that has been accepted,
\* also one that a connect registered while the disconnect was suspended at
\* a close, is either in u's connection set with its metadata entry, or
\* closed and in neither; none is open with a metadata entry but missing
\* from the set.
C20_NoLostRegistration ==
    (Quiescent /\ last.op = "disconnect" /\ last.ws = NoConn) =>
        \A c \in Conns :
            (ws_user[c] = last.user /\ ws_state[c] \in {"OPEN", "CLOSED"}) =>
                \/ /\ c \in AcGet(active_connections, last.user)
                   /\ c \in DOMAIN connection_metadata
                \/ /\ ws_state[c] = "CLOSED"
                   /\ c \notin AcGet(active_connections, last.user)
                   /\ c \notin DOMAIN connection_metadata

\* the websockets whose handshake succeeds in this step
Accepted == {c \in Conns : ws_state[c] = "CONNECTING" /\ ws_state'[c] = "OPEN"}

\* C21: in every step total_connections grows by the number of handshakes
\* that succeed in it (one for the accept of a connect, none for any step of
\* disconnect, send_to_user, broadcast_to_all and the sweep), so it never
\* decreases.
C21_TotalMonotone ==
    [][/\ connection_stats'.total_connections
            = connection_stats.total_connections + Cardinality(Accepted)
       /\ Cardinality(Accepted) <= 1]_vars

\* two connects succeeded and both connections are gone again
C21_Witness ==
    /\ Quiescent
    /\ connection_stats.total_connections = 2
    /\ Registered = {}
    /\ \E c, d \in Conns : c # d /\ ws_state[c] = "CLOSED" /\ ws_state[d] = "CLOSED"

\* C22: when the read loop of one connection's endpoint has ended (the client
\* went away, a text was not JSON, or a send raised), every connection of
\* that user is closed and the user is gone from the registry: no connection
\* set, no session, no metadata entry.
C22_LoopEndDisconnectsAll ==
    (Quiescent /\ last.op = "receive" /\ last.ws \in endpoint_ended) =>
        /\ UserGone(last.user)
        /\ \A c \in ConnectionsOf(last.user) :
              ws_state[c] \in {"NEW", "CLOSED"}

\* a text that is not JSON ended the loop of one of two open connections of
\* a user, and the other connection is closed too
C22_Witness ==
    /\ Quiescent
    /\ n_ops = 3
    /\ last.op = "receive"
    /\ last.stage = "invalid_json"
    /\ last.ws \in endpoint_ended
    /\ \E d \in ConnectionsOf(last.user) \ endpoint_ended :
          /\ ws_state[d] = "CLOSED"
          /\ sent_log[d] # << >>
          /\ sent_log[d][1].ok
    /\ UserGone(last.user)

\* C23: a send_to_user that found connections registered for the user and
\* whose send failed on every one of them returns false with all of them
\* unregistered and with its message appended to the tail of the user's
\* offline queue, in the step of its return and in no step before; no other
\* queue changes.
C23_AllFailQueuedOnce ==
    [][\A t \in Tasks :
         /\ ( /\ tasks'[t] # tasks[t]
              /\ tasks'[t].op = "send"
              /\ tasks'[t].g_ok = {} ) =>
                 offline_messages' = offline_messages
         /\ ( /\ tasks[t].op = "send"
              /\ tasks'[t].pc = "idle"
              /\ last'.snap # {}
              /\ last'.ok = {} ) =>
                 /\ last'.ret = FALSE
                 /\ last'.fail = last'.snap
                 /\ last'.snap \cap Registered' = {}
                 /\ offline_messages' =
                       [offline_messages EXCEPT
                          ![last'.user] = Append(@, last'.msg)]]_vars

\* a send failed on both connections of a user and its message is queued
C23_Witness ==
    /\ Quiescent
    /\ last.op = "send"
    /\ Cardinality(last.snap) = 2
    /\ last.fail = last.snap
    /\ last.ret = FALSE
    /\ Registered = {}
    /\ offline_messages[last.user] = << last.msg >>

\* coroutine t is inside a connect or a disconnect (called from the top level
\* or from connect, send_to_user, broadcast_to_all, the sweep or the endpoint)
InConnectOrDisconnect(t) ==
    \/ tasks[t].op \in {"connect", "disconnect"}
    \/ tasks[t].pc \in {"close_one", "close_all"}

\* C24: whenever no connect and no disconnect is in progress, the keys of
\* connection_metadata are the websockets in the users' connection sets, and
\* each entry's user_id is the user in whose set the websocket is.
C24_MetadataMatchesSets ==
    (\A t \in Tasks : ~InConnectOrDisconnect(t)) =>
        /\ DOMAIN connection_metadata = Registered
        /\ \A c \in DOMAIN connection_metadata :
              c \in AcGet(active_connections, connection_metadata[c].user_id)

\* in this step the connect of coroutine t begins the send_to_user of a
\* queued message and is suspended at its first send
ReplaySendBegins(t) ==
    /\ tasks'[t].op = "connect"
    /\ tasks'[t].s_from = "replay"
    /\ tasks'[t].pc = "send"
    /\ tasks'[t].r_i # tasks[t].r_i

\* C25: when a connect begins to replay a queued message, the new connection
\* has already been delivered its connection_confirmed, the message goes out
\* wrapped as an offline_message, and the targets of the send are all the
\* connections registered for the user at that moment, not the new one
\* alone.
C25_ConfirmThenReplayToAll ==
    [][\A t \in Tasks : ReplaySendBegins(t) =>
          /\ \E i \in 1 .. Len(sent_log'[tasks'[t].ws]) :
                sent_log'[tasks'[t].ws][i] =
                    [p |-> Msg("confirm", tasks'[t].ws), ok |-> TRUE]
          /\ \A i \in 1 .. Len(sent_log[tasks'[t].ws]) :
                sent_log[tasks'[t].ws][i].p = Msg("confirm", tasks'[t].ws) =>
                    \A j \in 1 .. i - 1 :
                        sent_log[tasks'[t].ws][j].p \notin
                            {OfflineWrap(tasks'[t].r_msgs[k]) :
                                k \in 1 .. Len(tasks'[t].r_msgs)}
          /\ IsOfflineMessage(tasks'[t].s_msg)
          /\ OfflineData(tasks'[t].s_msg) = tasks'[t].r_msgs[tasks'[t].r_i]
          /\ {tasks'[t].s_cur} \cup tasks'[t].s_todo
                = AcGet(active_connections', tasks'[t].user)]_vars

\* a connect has replayed a queued message and an earlier connection of the
\* same user has been delivered the offline_message too
C25_Witness ==
    /\ Quiescent
    /\ last.op = "connect"
    /\ last.stage = "replayed"
    /\ last.msgs # << >>
    /\ \E d \in ConnectionsOf(last.user) \ {last.ws} :
          \E i \in 1 .. Len(sent_log[d]) :
              /\ sent_log[d][i].ok
              /\ sent_log[d][i].p = OfflineWrap(last.msgs[1])
    /\ \E i \in 1 .. Len(sent_log[last.ws]) :
          /\ sent_log[last.ws][i].ok
          /\ sent_log[last.ws][i].p = OfflineWrap(last.msgs[1])

\* this step is taken by a broadcast_to_all of coroutine t
BroadcastStep(t) ==
    \/ tasks'[t] # tasks[t] /\ tasks[t].op = "broadcast"
    \/ tasks'[t] # tasks[t] /\ tasks'[t].op = "broadcast"
    \/ tasks' = tasks /\ n_ops' = n_ops + 1 /\ last'.op = "broadcast"

\* C26: no step of a broadcast_to_all changes an offline queue, whether a
\* user has no connection or every send to a user's connections fails.
C26_BroadcastNeverQueues ==
    [][\A t \in Tasks : BroadcastStep(t) =>
          offline_messages' = offline_messages]_vars

\* a broadcast has failed on every connection it found, a user is without a
\* connection now, and every queue is empty
C26_Witness ==
    /\ Quiescent
    /\ last.op = "broadcast"
    /\ last.snap # {}
    /\ last.fail = last.snap
    /\ Registered = {}
    /\ \A u \in Users : offline_messages[u] = << >>

\* C27: the registration of a connection writes a new session record for its
\* user (the count of the user's connections, the time, no status), whatever
\* the session held before: a status written by a user_status message is
\* gone after the next connect of that user.
C27_ConnectReplacesSession ==
    [][\A c \in Accepted :
          /\ ws_user[c] \in DOMAIN user_sessions'
          /\ user_sessions'[ws_user[c]] =
                [active_connections |->
                     Cardinality(AcGet(active_connections', ws_user[c])),
                 last_activity |-> now,
                 status |-> "none"]]_vars

\* a user connected, set a status with a user_status message and connected a
\* second time: both connections are registered and the session has no status
C27_Witness ==
    /\ Quiescent
    /\ n_ops = 3
    /\ last.op = "connect"
    /\ last.user \in status_given
    /\ get_user_connection_count(last.user) = 2
    /\ user_sessions[last.user].status = "none"

\* coroutine t is inside a connect or a disconnect for user u
InProgressFor(t, u) ==
    \/ tasks[t].op = "connect" /\ tasks[t].user = u
    \/ InConnectOrDisconnect(t) /\ tasks[t].d_user = u

\* C29: whenever no connect or disconnect is in progress for a user, the
\* active_connections count in that user's session is the size of the user's
\* connection set; whenever none is in progress for any user, the
\* active_connections statistic is the number of registered connections
\* over all users.
C29_CountsMatchSets ==
    /\ \A u \in Users :
          ( /\ \A t \in Tasks : ~InProgressFor(t, u)
            /\ u \in DOMAIN user_sessions )
          => user_sessions[u].active_connections =
                 Cardinality(AcGet(active_connections, u))
    /\ (\A t \in Tasks : ~InConnectOrDisconnect(t))
          => connection_stats.active_connections = TotalActive(active_connections)

\* a disconnect of one connection has run to its end and left the user with
\* a connection, counted in the session and in the statistic
C29_Witness ==
    /\ Quiescent
    /\ last.op = "disconnect"
    /\ Cardinality(Registered) >= 1
    /\ connection_stats.active_connections = Cardinality(Registered)
    /\ \E u \in DOMAIN user_sessions :
          /\ user_sessions[u].active_connections >= 1
          /\ user_sessions[u].active_connections =
                Cardinality(AcGet(active_connections, u))

\* the recorded mood events of an hour, and those of them with one mood
EventsAt(hour) == {i \in DOMAIN mood_patterns : mood_patterns[i].hour = hour}
EventsWith(hour, mood) == {i \in EventsAt(hour) : mood_patterns[i].mood = mood}

\* the number of events of the most frequent mood of an hour
TopCount(hour) ==
    CHOOSE n \in 0 .. Len(mood_patterns) :
        /\ \A m \in Moods : Cardinality(EventsWith(hour, m)) <= n
        /\ \E m \in Moods : Cardinality(EventsWith(hour, m)) = n

\* the insights returned for an hour
InsightsAt(hour) ==
    {i \in DOMAIN mood_insights : mood_insights[i].hour = hour}

\* C30: _generate_mood_insights returns a mood insight for an hour of day if
\* and only if at least 3 mood events are recorded for that hour and the
\* most frequent mood accounts for at least 60% of them
\* (count * 10 >= 6 * total); an hour with fewer than 3 events or a weaker
\* majority gets none.  The insight names a most frequent mood.
C30_MoodInsightIffMajority ==
    learning_op = "insights" =>
        \A h \in 0 .. 23 :
            /\ InsightsAt(h) # {}
                 <=> /\ Cardinality(EventsAt(h)) >= 3
                     /\ TopCount(h) * 10 >= 6 * Cardinality(EventsAt(h))
            /\ Cardinality(InsightsAt(h)) <= 1
            /\ \A i \in InsightsAt(h) :
                  /\ mood_insights[i].type = "mood_pattern"
                  /\ Cardinality(EventsWith(h, mood_insights[i].mood))
                        = TopCount(h)

\* insights were generated with an hour that has 2 events of one mood out
\* of 3 and an insight, and another hour that has 2 events and no insight
C30_Witness ==
    /\ learning_op = "insights"
    /\ \E h \in Hours, g \in Hours :
          /\ Cardinality(EventsAt(h)) = 3
          /\ TopCount(h) = 2
          /\ InsightsAt(h) # {}
          /\ Cardinality(EventsAt(g)) = 2
          /\ InsightsAt(g) = {}


====
